---- MODULE Spec2Model ----
(***************************************************************************)
(* Model of the CVPR 2024 paper scraper (src/scrape_cvpr/cvpr2024_scraper.py)*)
(*                                                                         *)
(* Text is a sequence of tokens; a token is a single character or a        *)
(* literal the code tests for as a unit (".pdf", "/papers/", ...).  A      *)
(* paper record is a Python dict: a function whose DOMAIN is the set of    *)
(* keys present.  The listing document is a flat sibling list of <dt> and  *)
(* <dd> nodes; a node is named by its position in the fetched page.        *)
(***************************************************************************)
EXTENDS Integers, Sequences, FiniteSets, TLC

\* ----------------------------------------------------------------- bounds
MaxNodes == 4
MaxPapers == 2
MaxEntries == 2
MaxPauseRecords == 10
MaxSummaryRecords == 11
MaxMixedRecords == 2
MaxViewRows == 2
MaxPosts == 3

\* ------------------------------------------------------------ text helpers
Min(a, b) == IF a < b THEN a ELSE b

IsWs(c) == c = " "

RECURSIVE LStrip(_)
LStrip(s) == IF s # <<>> /\ IsWs(Head(s)) THEN LStrip(Tail(s)) ELSE s

RECURSIVE RStrip(_)
RStrip(s) ==
    IF s # <<>> /\ IsWs(s[Len(s)]) THEN RStrip(SubSeq(s, 1, Len(s) - 1)) ELSE s

\* str.strip() / get_text(strip=True) on a single string
Strip(s) == LStrip(RStrip(s))

\* position of the first occurrence of p in s, 0 when there is none
FindSub(s, p) ==
    LET hits == {i \in 1..(Len(s) - Len(p) + 1) : SubSeq(s, i, i + Len(p) - 1) = p}
    IN IF hits = {} THEN 0 ELSE CHOOSE i \in hits : \A j \in hits : i <= j

\* sep.join(parts)
RECURSIVE Join(_, _)
Join(parts, sep) ==
    IF parts = <<>> THEN <<>>
    ELSE IF Len(parts) = 1 THEN parts[1]
    ELSE parts[1] \o sep \o Join(Tail(parts), sep)

\* s.split(sep): non-overlapping, left to right; never returns an empty list
RECURSIVE Split(_, _)
Split(s, sep) ==
    LET i == FindSub(s, sep)
    IN IF i = 0 THEN <<s>>
       ELSE <<SubSeq(s, 1, i - 1)>> \o Split(SubSeq(s, i + Len(sep), Len(s)), sep)

\* ------------------------------------------------------------------ dicts
EmptyDict == <<>>
Has(d, k) == k \in DOMAIN d
Get(d, k, default) == IF k \in DOMAIN d THEN d[k] ELSE default
Put(d, k, v) == [x \in (DOMAIN d) \cup {k} |-> IF x = k THEN v ELSE d[x]]
Del(d, k) == [x \in (DOMAIN d) \ {k} |-> d[x]]

\* -------------------------------------------------------------------- URLs
SiteRoot == <<"https://openaccess.thecvf.com", "/">>
Origins == {"https://openaccess.thecvf.com", "https://other.org"}

\* urljoin("https://openaccess.thecvf.com/", href) for a non-empty href
urljoin(base, href) ==
    IF href[1] \in Origins THEN href
    ELSE IF href[1] = "/" THEN <<base[1]>> \o href
    ELSE base \o href

\* urljoin raises ValueError ("Invalid IPv6 URL") on a target whose authority
\* opens a bracket it never closes
urljoin_raises(href) == href # <<>> /\ href[1] = "http://["

\* re.compile(r'\.pdf$') searched in an href
MatchesPdf(href) == href # <<>> /\ href[Len(href)] = ".pdf"

\* re.compile(r'supplemental|supplementary', re.I) searched in an href
SuppWords == {"supplemental", "supplementary", "Supplemental", "SUPPLEMENTARY"}
MatchesSupp(href) == \E i \in 1..Len(href) : href[i] \in SuppWords

\* ------------------------------------------------------ documents (markup)
\* a link <a href=...>text</a>; href = <<>> stands for a missing or empty href
Link(text, href) == [text |-> text, href |-> href]
\* a <dt> or <dd> node: its links in document order and its text outside links
Node(tag, links, text) == [tag |-> tag, links |-> links, text |-> text]

HrefPage == <<"/", "content", "/", "p", ".html">>
HrefPdf == <<"content", "/papers/", "p", ".pdf">>
HrefPdfOther == <<"https://other.org", "/", "q", ".pdf">>
HrefSupp == <<"/", "content", "/", "Supplemental", "/", "p", ".zip">>
HrefAuthor == <<"#">>

DtLink == Node("dt", <<Link(<<" ", "P">>, HrefPage)>>, <<>>)
DtText == Node("dt", <<>>, <<" ", "Q", " ">>)
DtBlankLink == Node("dt", <<Link(<<>>, HrefPage)>>, <<"R">>)
DdAuthors == Node("dd", <<Link(<<"A">>, HrefAuthor), Link(<<"B", " ">>, HrefAuthor),
                          Link(<<"A">>, HrefAuthor)>>, <<>>)
DdPdf == Node("dd", <<Link(<<"A", ";", " ", "B">>, HrefAuthor), Link(<<"pdf">>, HrefPdf),
                      Link(<<"supp">>, HrefSupp)>>, <<",">>)

\* the nodes listing pages are built from
NodeSamples == {DtLink, DtText, DtBlankLink, DdAuthors, DdPdf}

\* further targets and nodes, for pages that exercise one entry in detail
HrefBad == <<"http://[", "x", ".html">>
HrefBadPdf == <<"http://[", "x", ".pdf">>
HrefPdfQuery == <<"content", "/", "v", ".pdf", "?dl=1">>
HrefSuppUpper == <<"/", "SUPPLEMENTARY", "/", "s", ".zip">>

DtBad == Node("dt", <<Link(<<"X">>, HrefBad)>>, <<>>)
DtPdf == Node("dt", <<Link(<<"T">>, HrefPage), Link(<<"pdf">>, HrefPdfOther)>>, <<>>)
DdBad == Node("dd", <<Link(<<"A">>, HrefAuthor), Link(<<"pdf">>, HrefBadPdf)>>, <<>>)
DdPdfOther == Node("dd", <<Link(<<"v">>, HrefPdfQuery), Link(<<"s1">>, HrefSuppUpper),
                           Link(<<"pdf">>, HrefPdf), Link(<<"q">>, HrefPdfOther),
                           Link(<<"s2">>, HrefSupp)>>, <<>>)
DdTextLabel == Node("dd", <<>>, <<" ", "Authors:", " ", "A", ",", " ", "B">>)
DdTextMid == Node("dd", <<>>, <<"A", ",", " ", "B", " ", "By:", " ", "C">>)
DdTextPlain == Node("dd", <<>>, <<" ", "A", " ", ",", "B", " ">>)
DdTextOnlyLabel == Node("dd", <<>>, <<"Author:", " ">>)

\* a .pdf target with a second ".pdf" inside its path
HrefPdfNested == <<"content", "/papers/", "v", ".pdf", "/", "p", ".pdf">>
DdPdfNested == Node("dd", <<Link(<<"pdf">>, HrefPdfNested)>>, <<>>)

\* one title node with or without a detail node after it
EntryDts == {DtLink, DtText, DtPdf}
EntryDds == {DdAuthors, DdPdf, DdPdfOther, DdTextLabel, DdTextMid, DdTextPlain, DdTextOnlyLabel}
Entries == {<<dt>> : dt \in EntryDts} \cup {<<dt, dd>> : dt \in EntryDts, dd \in EntryDds}

\* nodes some of which make extract_paper_info raise
RaisingSamples == {DtLink, DtText, DtBlankLink, DtBad, DdAuthors, DdBad}

\* soup.find_all('dt') on a page: the positions of its <dt> nodes, in order
RECURSIVE find_all_dt(_, _)
find_all_dt(page, from) ==
    IF from > Len(page) THEN <<>>
    ELSE (IF page[from].tag = "dt" THEN <<from>> ELSE <<>>) \o find_all_dt(page, from + 1)

\* variant: the first <dd> of the document, wherever it stands (soup.find('dd'))
find_any_dd(doc, att, n) ==
    LET dds == {j \in att : doc[j].tag = "dd"}
    IN IF dds = {} THEN <<>> ELSE <<CHOOSE j \in dds : \A k \in dds : j <= k>>

\* dt_elem.find_next_sibling('dd'): the first <dd> after node n among the nodes
\* still attached to the document (<<>> stands for None)
find_next_sibling_dd(page, attached, n) ==
    LET later == {j \in attached : j > n /\ page[j].tag = "dd"}
    IN IF later = {} THEN <<>> ELSE <<CHOOSE j \in later : \A k \in later : j <= k>>

\* element.find(...): the first of the positions hits in elems, <<>> or <<elem>>
First(elems, hits) ==
    IF hits = {} THEN <<>> ELSE <<elems[CHOOSE i \in hits : \A j \in hits : i <= j]>>

\* variant: the last of the positions hits in elems
Last(elems, hits) ==
    IF hits = {} THEN <<>> ELSE <<elems[CHOOSE i \in hits : \A j \in hits : i >= j]>>

\* variant: the last link whose target ends in .pdf
FindPdfLinkLast(links) == Last(links, {i \in 1..Len(links) : MatchesPdf(links[i].href)})

\* element.find('a', href=re.compile(r'\.pdf$')) over a sequence of links
FindPdfLink(links) == First(links, {i \in 1..Len(links) : MatchesPdf(links[i].href)})

\* element.find('a', href=re.compile(r'supplemental|supplementary', re.I))
FindSuppLink(links) == First(links, {i \in 1..Len(links) : MatchesSupp(links[i].href)})

\* variant: author names collected without repetition
RECURSIVE TextOfDistinct(_)
TextOfDistinct(links) ==
    IF links = <<>> THEN <<>>
    ELSE LET init == TextOfDistinct(SubSeq(links, 1, Len(links) - 1))
             last == Strip(links[Len(links)].text)
         IN IF \E i \in 1..Len(init) : init[i] = last THEN init ELSE Append(init, last)

TextOf(links) == [i \in 1..Len(links) |-> Strip(links[i].text)]

\* ------------------------------------------------------ extract_paper_info
\* lines 53-66: title and the stashed detail-page URL
ExtractTitle(dt) ==
    IF dt.links # <<>>
    THEN LET title_link == dt.links[1]
             withTitle == Put(EmptyDict, "title", Strip(title_link.text))
         IN IF title_link.href # <<>>
            THEN Put(withTitle, "_paper_url", urljoin(SiteRoot, title_link.href))
            ELSE withTitle
    ELSE IF Strip(dt.text) # <<>> THEN Put(EmptyDict, "title", Strip(dt.text))
    ELSE EmptyDict

AuthorPrefixes == <<"Authors:", "Author:", "By:">>

\* lines 79-82: drop everything up to the first listed label found in the text
RemovePrefix(author_text) ==
    LET found == {i \in 1..Len(AuthorPrefixes) : FindSub(author_text, <<AuthorPrefixes[i]>>) > 0}
    IN IF found = {} THEN author_text
       ELSE LET i == CHOOSE i \in found : \A j \in found : i <= j
                at == FindSub(author_text, <<AuthorPrefixes[i]>>)
            IN Strip(SubSeq(author_text, at + 1, Len(author_text)))

\* lines 69-86: authors from the <dd>, dd = <<>> or <<node>>
ExtractAuthors(info, dd) ==
    IF dd = <<>> THEN info
    ELSE IF dd[1].links # <<>> THEN Put(info, "authors", TextOf(dd[1].links))
    ELSE LET author_text == RemovePrefix(Strip(dd[1].text))
             parts == Split(author_text, <<",">>)
         IN IF author_text # <<>>
            THEN Put(info, "authors", [i \in 1..Len(parts) |-> Strip(parts[i])])
            ELSE info

\* lines 90-93, 97-100, 184-187: store the found link's target, resolved
\* against the site, under key
ExtractUrl(info, key, hit) ==
    IF hit # <<>> /\ hit[1].href # <<>>
    THEN Put(info, key, urljoin(SiteRoot, hit[1].href))
    ELSE info

Truthy(d, k) == Has(d, k) /\ d[k] # <<>>

\* variant: no try/except, every target is taken as it resolves
extract_paper_info_unguarded(dt, dd) ==
    LET links == dt.links \o (IF dd = <<>> THEN <<>> ELSE dd[1].links)
        i1 == ExtractTitle(dt)
        i2 == ExtractAuthors(i1, dd)
        i3 == ExtractUrl(i2, "pdf_url", FindPdfLink(links))
        i4 == ExtractUrl(i3, "supplementary_url", FindSuppLink(links))
    IN IF Truthy(i4, "title") THEN <<i4>> ELSE <<>>

\* lines 61, 93, 100: one of the urljoin calls made for this wrapper raises
ExtractRaises(dt, dd) ==
    LET links == dt.links \o (IF dd = <<>> THEN <<>> ELSE dd[1].links)
        pdf_link == FindPdfLink(links)
        supp_link == FindSuppLink(links)
    IN \/ dt.links # <<>> /\ urljoin_raises(dt.links[1].href)
       \/ pdf_link # <<>> /\ urljoin_raises(pdf_link[1].href)
       \/ supp_link # <<>> /\ urljoin_raises(supp_link[1].href)

\* extract_paper_info(wrapper) for wrapper = <div> dt [dd] </div>;
\* returns <<>> for None (no title, or lines 104-106: an exception was caught),
\* <<paper_info>> otherwise
extract_paper_info(dt, dd) ==
    LET links == dt.links \o (IF dd = <<>> THEN <<>> ELSE dd[1].links)
        i1 == ExtractTitle(dt)
        i2 == ExtractAuthors(i1, dd)
        i3 == ExtractUrl(i2, "pdf_url", FindPdfLink(links))
        i4 == ExtractUrl(i3, "supplementary_url", FindSuppLink(links))
    IN IF ExtractRaises(dt, dd) THEN <<>>
       ELSE IF Truthy(i4, "title") THEN <<i4>> ELSE <<>>

\* ------------------------------------------------------------ detail pages
\* a <div> of a detail page and the page: its divs and links in document order
Div(id, class, text) == [id |-> id, class |-> class, text |-> text]
Page(divs, links) == [divs |-> divs, links |-> links]

PageFull == Page(<<Div("content", "main", <<"x">>), Div("abstract", "", <<" ", "abs1">>)>>,
                 <<Link(<<"pdf">>, HrefPdfOther)>>)
PageClass == Page(<<Div("", "paper-Abstract", <<"abs2">>)>>, <<>>)
PageBare == Page(<<Div("content", "main", <<"x">>)>>, <<Link(<<"pdf">>, HrefPdfOther)>>)
DetailPages == {PageFull, PageClass, PageBare}

\* re.compile(r'abstract', re.I) searched in a class attribute
AbstractClasses == {"abstract", "paper-Abstract", "ABSTRACT"}

\* lines 175-177: the abstract container of a detail page, <<>> when there is none
FindAbstract(soup) ==
    LET byId == First(soup.divs, {i \in 1..Len(soup.divs) : soup.divs[i].id = "abstract"})
        byClass == First(soup.divs,
                         {i \in 1..Len(soup.divs) : soup.divs[i].class \in AbstractClasses})
    IN IF byId # <<>> THEN byId ELSE byClass

\* ------------------------------------------------------------- fetch_page
\* what the transport answers to one GET: a body, or a requests.RequestException
Response(status, body) == [status |-> status, body |-> body]
Failures == {Response("http_error", <<>>), Response("network_error", <<>>)}
ListingUrl == <<"base_url">>

None == [kind |-> "None"]
Soup(doc) == [kind |-> "soup", doc |-> doc]

\* variant: a failed GET is tried once more before giving up
fetch_page_retrying(url, resp) ==
    [gets |-> IF resp.status = "ok" THEN <<url>> ELSE <<url, url>>,
     ret |-> IF resp.status = "ok" THEN Soup(resp.body[1]) ELSE None,
     log |-> IF resp.status = "ok" THEN <<>> ELSE <<[url |-> url, cause |-> resp.status]>>]

\* fetch_page(url) when the transport answers resp: the GETs it issues, the value
\* it returns and the error lines it logs
fetch_page(url, resp) ==
    [gets |-> <<url>>,
     ret |-> IF resp.status = "ok" THEN Soup(resp.body[1]) ELSE None,
     log |-> IF resp.status = "ok" THEN <<>> ELSE <<[url |-> url, cause |-> resp.status]>>]

\* ------------------------------------------------------------------- state
VARIABLES
    pc,               \* position of the run: in main, scrape_papers or enrich_paper_details
    page,             \* the listing page the site serves
    max_papers,       \* self.max_papers
    fetch_abstracts,  \* self.fetch_abstracts
    attached,         \* positions of the listing nodes still attached to the soup
    dt_elements,      \* dt_elements of scrape_papers
    idx,              \* 1-based loop position of the running pass
    papers,           \* papers of scrape_papers / of enrich_paper_details
    enriched_papers,  \* enriched_papers of enrich_paper_details
    self_papers,      \* self.papers
    returned,         \* <<value>> once scrape_papers has returned to main
    message,          \* what main printed at the end
    csv_file,         \* <<content>> once cvpr2024_papers.csv is written
    summary_file,     \* <<content>> once cvpr2024_summary.txt is written
    calls,            \* number of fetch_page calls made
    gets,             \* URLs of the GETs issued, in order
    ret,              \* value returned by the last fetch_page call
    errlog,           \* logger.error lines of fetch_page
    transport,        \* what the transport answered to each GET, in order
    history,          \* per pass step, what was processed (observation only)
    viewer,           \* view_csv.py: the state of one view_csv call
    insta             \* instagram_downloader.py: the state of one download_profile call

vars == <<pc, page, max_papers, fetch_abstracts, attached, dt_elements, idx, papers,
          enriched_papers, self_papers, returned, message, csv_file, summary_file,
          calls, gets, ret, errlog, transport, history, viewer, insta>>

\* the scraper's own state, and the state of the other two programs
scraper == <<pc, page, max_papers, fetch_abstracts, attached, dt_elements, idx, papers,
             enriched_papers, self_papers, returned, message, csv_file, summary_file,
             calls, gets, ret, errlog, transport, history>>
tools == <<viewer, insta>>

\* view_csv and download_profile have not been called
ViewerIdle == [pc |-> "idle"]
InstaIdle == [pc |-> "idle"]

config == <<page, max_papers, fetch_abstracts>>
files == <<csv_file, summary_file>>
net == <<calls, gets, ret, errlog, transport>>

RECURSIVE SeqsUpTo(_, _)
SeqsUpTo(S, n) ==
    IF n = 0 THEN {<<>>}
    ELSE LET shorter == SeqsUpTo(S, n - 1)
         IN shorter \cup {Append(q, x) : q \in {r \in shorter : Len(r) = n - 1}, x \in S}

ListingPages == SeqsUpTo(NodeSamples, MaxNodes)

\* lines 26-34 and 272: a fresh scraper, nothing fetched or written yet
Init ==
    /\ pc = "start"
    /\ page \in ListingPages
    /\ max_papers \in 0..MaxPapers
    /\ fetch_abstracts \in BOOLEAN
    /\ attached = {}
    /\ dt_elements = <<>>
    /\ idx = 0
    /\ papers = <<>>
    /\ enriched_papers = <<>>
    /\ self_papers = <<>>
    /\ returned = <<>>
    /\ message = "none"
    /\ csv_file = <<>>
    /\ summary_file = <<>>
    /\ calls = 0
    /\ gets = <<>>
    /\ ret = None
    /\ errlog = <<>>
    /\ transport = <<>>
    /\ history = <<>>
    /\ viewer = ViewerIdle
    /\ insta = InstaIdle

\* one fetch_page call, answered resp by the transport: its effects on the
\* network-side state
DoFetch(f, resp) ==
    /\ calls' = calls + 1
    /\ gets' = gets \o f.gets
    /\ ret' = f.ret
    /\ errlog' = errlog \o f.log
    /\ transport' = Append(transport, resp)

\* scrape_papers, lines 110-123: fetch the listing page
ScrapeStart ==
    /\ pc = "start"
    /\ \E resp \in Failures \cup {Response("ok", <<page>>)} :
         LET f == fetch_page(ListingUrl, resp)
         IN /\ DoFetch(f, resp)
            /\ IF f.ret.kind = "None"
               THEN /\ returned' = << <<>> >>
                    /\ pc' = "main"
                    /\ UNCHANGED <<attached, dt_elements, idx>>
               ELSE /\ attached' = 1..Len(f.ret.doc)
                    /\ dt_elements' = find_all_dt(f.ret.doc, 1)
                    /\ idx' = 1
                    /\ pc' = "listing"
                    /\ UNCHANGED returned
    /\ UNCHANGED <<tools, config, papers, enriched_papers, self_papers, message, files, history>>

\* variant: the loop never looks at the limit
ListingStepPastLimit ==
    /\ pc = "listing"
    /\ idx <= Len(dt_elements)
    /\ LET dt_elem == dt_elements[idx]
           dd_elem == find_next_sibling_dd(page, attached, dt_elem)
           dd == IF dd_elem = <<>> THEN <<>> ELSE <<page[dd_elem[1]]>>
           paper_info == extract_paper_info(page[dt_elem], dd)
       IN /\ attached' = attached \ ({dt_elem} \cup {dd_elem[i] : i \in DOMAIN dd_elem})
          /\ papers' = papers \o paper_info
          /\ history' = Append(history, [op |-> "extract", dt |-> dt_elem, dd |-> dd_elem,
                                         out |-> paper_info])
    /\ idx' = idx + 1
    /\ UNCHANGED <<tools, pc, config, dt_elements, enriched_papers, self_papers, returned,
                   message, files, net>>

\* scrape_papers, lines 125-148: one iteration of the loop over dt_elements
ListingStep ==
    /\ pc = "listing"
    /\ idx <= Len(dt_elements)
    /\ ~(Len(papers) >= max_papers)
    /\ LET dt_elem == dt_elements[idx]
           dd_elem == find_next_sibling_dd(page, attached, dt_elem)
           dd == IF dd_elem = <<>> THEN <<>> ELSE <<page[dd_elem[1]]>>
           paper_info == extract_paper_info(page[dt_elem], dd)
       IN /\ attached' = attached \ ({dt_elem} \cup {dd_elem[i] : i \in DOMAIN dd_elem})
          /\ papers' = papers \o paper_info
          /\ history' = Append(history, [op |-> "extract", dt |-> dt_elem, dd |-> dd_elem,
                                         out |-> paper_info])
    /\ idx' = idx + 1
    /\ UNCHANGED <<tools, pc, config, dt_elements, enriched_papers, self_papers, returned,
                   message, files, net>>

\* variant: enrichment starts whenever there are papers, whatever the flag says
ListingEndAlwaysEnriching ==
    /\ pc = "listing"
    /\ idx > Len(dt_elements) \/ Len(papers) >= max_papers
    /\ IF papers # <<>>
       THEN /\ pc' = "enrich"
            /\ idx' = 1
            /\ enriched_papers' = <<>>
            /\ UNCHANGED <<self_papers, returned>>
       ELSE /\ pc' = "main"
            /\ self_papers' = papers
            /\ returned' = <<papers>>
            /\ UNCHANGED <<idx, enriched_papers>>
    /\ UNCHANGED <<tools, config, attached, dt_elements, papers, message, files, net, history>>

\* variant: enrichment may start while title nodes are still waiting
ListingEndEarly ==
    /\ pc = "listing"
    /\ IF papers # <<>> /\ fetch_abstracts
       THEN /\ pc' = "enrich"
            /\ idx' = 1
            /\ enriched_papers' = <<>>
            /\ UNCHANGED <<self_papers, returned>>
       ELSE /\ idx > Len(dt_elements) \/ Len(papers) >= max_papers
            /\ pc' = "main"
            /\ self_papers' = papers
            /\ returned' = <<papers>>
            /\ UNCHANGED <<idx, enriched_papers>>
    /\ UNCHANGED <<tools, config, attached, dt_elements, papers, message, files, net, history>>

\* scrape_papers, lines 125-129 and 150-158: the loop ends (exhausted or limit
\* reached); either enrichment starts or the papers are stored and returned
ListingEnd ==
    /\ pc = "listing"
    /\ idx > Len(dt_elements) \/ Len(papers) >= max_papers
    /\ IF papers # <<>> /\ fetch_abstracts
       THEN /\ pc' = "enrich"
            /\ idx' = 1
            /\ enriched_papers' = <<>>
            /\ UNCHANGED <<self_papers, returned>>
       ELSE /\ pc' = "main"
            /\ self_papers' = papers
            /\ returned' = <<papers>>
            /\ UNCHANGED <<idx, enriched_papers>>
    /\ UNCHANGED <<tools, config, attached, dt_elements, papers, message, files, net, history>>

\* ---------------------------------------------------- enrich_paper_details
\* str.replace(old, new) on a text whose tokens old and new are
ReplaceToken(s, old, new) == [i \in 1..Len(s) |-> IF s[i] = old THEN new ELSE s[i]]

\* lines 166-169: the detail-page URL of a record, <<>> when none is determined
PaperUrl(paper) ==
    IF Truthy(paper, "_paper_url") THEN <<paper["_paper_url"]>>
    ELSE IF Truthy(paper, "pdf_url")
    THEN <<ReplaceToken(ReplaceToken(paper["pdf_url"], "/papers/", "/"), ".pdf", ".html")>>
    ELSE <<>>

\* variant: a page without abstract container sets an empty abstract
FillAbstractOrEmpty(paper, soup) ==
    LET abstract_elem == FindAbstract(soup)
    IN Put(paper, "abstract", IF abstract_elem # <<>> THEN Strip(abstract_elem[1].text) ELSE <<>>)

\* lines 175-179: set the abstract from the page's abstract container, if any
FillAbstract(paper, soup) ==
    LET abstract_elem == FindAbstract(soup)
    IN IF abstract_elem # <<>>
       THEN Put(paper, "abstract", Strip(abstract_elem[1].text))
       ELSE paper

\* variant: the page's .pdf link is taken whether or not pdf_url is already set
FillPdfAlways(paper, soup) == ExtractUrl(paper, "pdf_url", FindPdfLink(soup.links))

\* lines 182-187: take the page's .pdf link when the record has no pdf_url
FillPdf(paper, soup) ==
    IF ~Truthy(paper, "pdf_url")
    THEN ExtractUrl(paper, "pdf_url", FindPdfLink(soup.links))
    ELSE paper

\* variant: a failed fetch blanks the abstract of the record
ApplyFetchBlanking(paper, fetched) ==
    IF fetched.kind = "None" THEN Put(paper, "abstract", <<>>)
    ELSE FillPdf(FillAbstract(paper, fetched.doc), fetched.doc)

\* variant: a fetched page rebuilds the record from its title and the page
ApplyFetchRebuilding(paper, fetched) ==
    IF fetched.kind = "None" THEN paper
    ELSE LET kept == [k \in DOMAIN paper \cap {"title", "_paper_url", "pdf_url", "abstract"} |-> paper[k]]
         IN FillPdf(FillAbstract(kept, fetched.doc), fetched.doc)

\* lines 173-187: what a returned fetch does to the record
ApplyFetch(paper, fetched) ==
    IF fetched.kind = "None" THEN paper
    ELSE FillPdf(FillAbstract(paper, fetched.doc), fetched.doc)

\* lines 190-191
DropPaperUrl(paper) == IF Has(paper, "_paper_url") THEN Del(paper, "_paper_url") ELSE paper

EnrichPauseEvery == 5

\* variant: the test is made on the 0-based index (idx % 5 == 0)
PausesZeroBased(i) == (i - 1) % EnrichPauseEvery = 0

\* line 196: the pass sleeps after the record at 1-based position i
Pauses(i) == i % EnrichPauseEvery = 0

\* variant: a failed fetch ends the loop, the records after it are not processed
EnrichStepStoppingOnFailure ==
    /\ pc = "enrich"
    /\ idx <= Len(papers)
    /\ LET paper == papers[idx]
           paper_url == PaperUrl(paper)
       IN IF paper_url # <<>>
          THEN \E resp \in Failures \cup {Response("ok", <<d>>) : d \in DetailPages} :
                 LET f == fetch_page(paper_url[1], resp)
                     after == DropPaperUrl(ApplyFetch(paper, f.ret))
                 IN /\ DoFetch(f, resp)
                    /\ papers' = [papers EXCEPT ![idx] = after]
                    /\ enriched_papers' = Append(enriched_papers, after)
                    /\ history' = Append(history,
                          [op |-> "enrich", i |-> idx, before |-> paper, after |-> after,
                           url |-> paper_url, status |-> resp.status, body |-> resp.body,
                           paused |-> Pauses(idx)])
                    /\ pc' = IF f.ret.kind = "None" THEN "enriched" ELSE pc
          ELSE /\ papers' = [papers EXCEPT ![idx] = DropPaperUrl(paper)]
               /\ enriched_papers' = Append(enriched_papers, DropPaperUrl(paper))
               /\ history' = Append(history,
                     [op |-> "enrich", i |-> idx, before |-> paper,
                      after |-> DropPaperUrl(paper), url |-> <<>>, status |-> "none",
                      body |-> <<>>, paused |-> Pauses(idx)])
               /\ UNCHANGED <<net, pc>>
    /\ idx' = idx + 1
    /\ UNCHANGED <<tools, config, attached, dt_elements, self_papers, returned, message, files>>

\* enrich_paper_details, lines 164-198: one iteration of the loop over papers
EnrichStep ==
    /\ pc = "enrich"
    /\ idx <= Len(papers)
    /\ LET paper == papers[idx]
           paper_url == PaperUrl(paper)
       IN IF paper_url # <<>>
          THEN \E resp \in Failures \cup {Response("ok", <<d>>) : d \in DetailPages} :
                 LET f == fetch_page(paper_url[1], resp)
                     after == DropPaperUrl(ApplyFetch(paper, f.ret))
                 IN /\ DoFetch(f, resp)
                    /\ papers' = [papers EXCEPT ![idx] = after]
                    /\ enriched_papers' = Append(enriched_papers, after)
                    /\ history' = Append(history,
                          [op |-> "enrich", i |-> idx, before |-> paper, after |-> after,
                           url |-> paper_url, status |-> resp.status, body |-> resp.body,
                           paused |-> Pauses(idx)])
          ELSE /\ papers' = [papers EXCEPT ![idx] = DropPaperUrl(paper)]
               /\ enriched_papers' = Append(enriched_papers, DropPaperUrl(paper))
               /\ history' = Append(history,
                     [op |-> "enrich", i |-> idx, before |-> paper,
                      after |-> DropPaperUrl(paper), url |-> <<>>, status |-> "none",
                      body |-> <<>>, paused |-> Pauses(idx)])
               /\ UNCHANGED net
    /\ idx' = idx + 1
    /\ UNCHANGED <<tools, pc, config, attached, dt_elements, self_papers, returned, message, files>>

\* enrich_paper_details, line 200: the loop is over, enriched_papers is returned
EnrichReturn ==
    /\ pc = "enrich"
    /\ idx > Len(papers)
    /\ pc' = "enriched"
    /\ UNCHANGED <<tools, config, attached, dt_elements, idx, papers, enriched_papers, self_papers,
                   returned, message, files, net, history>>

\* scrape_papers, lines 153 and 157-158: store and return the enriched list
ScrapeReturn ==
    /\ pc = "enriched"
    /\ papers' = enriched_papers
    /\ self_papers' = enriched_papers
    /\ returned' = <<enriched_papers>>
    /\ pc' = "main"
    /\ UNCHANGED <<tools, config, attached, dt_elements, idx, enriched_papers, message, files, net,
                   history>>

\* ------------------------------------------------------------------ export
Fieldnames == <<"title", "authors", "abstract", "pdf_url", "supplementary_url">>
AuthorSep == <<";", " ">>

\* variant: a missing field is written as the text of Python's None
CsvRowNullMarker(paper) ==
    <<Get(paper, "title", <<"None">>),
      IF Has(paper, "authors") THEN Join(paper["authors"], <<";", " ">>) ELSE <<"None">>,
      Get(paper, "abstract", <<"None">>),
      Get(paper, "pdf_url", <<"None">>),
      Get(paper, "supplementary_url", <<"None">>)>>

\* variant: a record without pdf_url exports its detail-page URL in that column
CsvRowPageUrlFallback(paper) ==
    <<Get(paper, "title", <<>>),
      IF Has(paper, "authors") THEN Join(paper["authors"], <<";", " ">>) ELSE <<>>,
      Get(paper, "abstract", <<>>),
      Get(paper, "pdf_url", Get(paper, "_paper_url", <<>>)),
      Get(paper, "supplementary_url", <<>>)>>

\* lines 216-222: the cells of one row, in Fieldnames order
CsvRow(paper) ==
    <<Get(paper, "title", <<>>),
      IF Has(paper, "authors") THEN Join(paper["authors"], AuthorSep) ELSE <<>>,
      Get(paper, "abstract", <<>>),
      Get(paper, "pdf_url", <<>>),
      Get(paper, "supplementary_url", <<>>)>>

\* lines 209-223: the header row, then one row per paper (the csv module's own
\* quoting of a cell is the library's and is read back by csv.reader unchanged)
CsvContent(ps) == [header |-> Fieldnames, rows |-> [i \in 1..Len(ps) |-> CsvRow(ps[i])]]

PreviewCount == 10
PreviewAuthors == 3
PreviewAbstractLen == 200

CountWhere(ps, key) == Cardinality({i \in 1..Len(ps) : Truthy(ps[i], key)})

\* variant: the limits are taken one too early (>= instead of >)
PreviewEntryCuttingAtLimit(paper) ==
    [title |-> Get(paper, "title", <<"Unknown Title">>),
     authors |-> IF Truthy(paper, "authors")
                 THEN <<Join(SubSeq(paper["authors"], 1, Min(PreviewAuthors, Len(paper["authors"]))),
                             <<",", " ">>)>>
                 ELSE <<>>,
     et_al |-> IF Truthy(paper, "authors") /\ Len(paper["authors"]) >= PreviewAuthors
               THEN <<Len(paper["authors"])>> ELSE <<>>,
     abstract |-> IF Truthy(paper, "abstract")
                  THEN IF Len(paper["abstract"]) >= PreviewAbstractLen
                       THEN <<SubSeq(paper["abstract"], 1, PreviewAbstractLen) \o <<"...">> >>
                       ELSE <<paper["abstract"]>>
                  ELSE <<>>]

\* lines 244-254: the preview entry of one paper
PreviewEntry(paper) ==
    [title |-> Get(paper, "title", <<"Unknown Title">>),
     authors |-> IF Truthy(paper, "authors")
                 THEN <<Join(SubSeq(paper["authors"], 1, Min(PreviewAuthors, Len(paper["authors"]))),
                             <<",", " ">>)>>
                 ELSE <<>>,
     et_al |-> IF Truthy(paper, "authors") /\ Len(paper["authors"]) > PreviewAuthors
               THEN <<Len(paper["authors"])>> ELSE <<>>,
     abstract |-> IF Truthy(paper, "abstract")
                  THEN IF Len(paper["abstract"]) > PreviewAbstractLen
                       THEN <<SubSeq(paper["abstract"], 1, PreviewAbstractLen) \o <<"...">> >>
                       ELSE <<paper["abstract"]>>
                  ELSE <<>>]

\* variant: every record is previewed (self.papers without the [:10] slice)
SummaryContentPreviewingAll(ps) ==
    [total |-> Len(ps),
     with_abstracts |-> CountWhere(ps, "abstract"),
     with_pdfs |-> CountWhere(ps, "pdf_url"),
     preview |-> [i \in 1..Len(ps) |-> PreviewEntry(ps[i])]]

\* lines 229-254: the summary report
SummaryContent(ps) ==
    [total |-> Len(ps),
     with_abstracts |-> CountWhere(ps, "abstract"),
     with_pdfs |-> CountWhere(ps, "pdf_url"),
     preview |-> [i \in 1..Min(PreviewCount, Len(ps)) |-> PreviewEntry(ps[i])]]

\* ---------------------------------------------------------------------main
\* variant: main exports whatever scrape_papers returned, without testing it
MainCheckAlwaysSaving ==
    /\ pc = "main"
    /\ pc' = "save_csv"
    /\ UNCHANGED <<tools, config, attached, dt_elements, idx, papers, enriched_papers, self_papers,
                   returned, message, files, net, history>>

\* main, lines 275-277 and 286-288: scrape_papers has returned
MainCheck ==
    /\ pc = "main"
    /\ IF returned[1] # <<>>
       THEN pc' = "save_csv" /\ UNCHANGED message
       ELSE pc' = "done" /\ message' = "no_papers"
    /\ UNCHANGED <<tools, config, attached, dt_elements, idx, papers, enriched_papers, self_papers,
                   returned, files, net, history>>

\* main, line 279: save_to_csv (lines 204-225)
SaveCsv ==
    /\ pc = "save_csv"
    /\ csv_file' = IF self_papers = <<>> THEN csv_file ELSE <<CsvContent(self_papers)>>
    /\ pc' = "save_summary"
    /\ UNCHANGED <<tools, config, attached, dt_elements, idx, papers, enriched_papers, self_papers,
                   returned, message, summary_file, net, history>>

\* main, lines 280-285: save_summary (lines 229-256), then the success message
SaveSummary ==
    /\ pc = "save_summary"
    /\ summary_file' = <<SummaryContent(self_papers)>>
    /\ message' = "success"
    /\ pc' = "done"
    /\ UNCHANGED <<tools, config, attached, dt_elements, idx, papers, enriched_papers, self_papers,
                   returned, csv_file, net, history>>

\* an exception that fetch_page does not catch (it catches only
\* requests.RequestException, line 43) or an interrupt leaves scrape_papers and
\* main: the run ends where it is
Crash ==
    /\ pc \in {"listing", "enrich", "enriched"}
    /\ pc' = "crashed"
    /\ UNCHANGED <<tools, config, attached, dt_elements, idx, papers, enriched_papers, self_papers,
                   returned, message, files, net, history>>

Next ==
    \/ ScrapeStart
    \/ ListingStep
    \/ ListingEnd
    \/ EnrichStep
    \/ EnrichReturn
    \/ ScrapeReturn
    \/ MainCheck
    \/ SaveCsv
    \/ SaveSummary
    \/ Crash

Spec == Init /\ [][Next]_vars

\* ------------------------------ enrich_paper_details called on a record list
MaxRecords == 2

\* records the listing pass emits, and the same records after one enrichment
ListedRecords ==
    {extract_paper_info(dt, dd)[1] :
        dt \in {DtLink, DtText}, dd \in {<<>>, <<DdAuthors>>, <<DdPdf>>}}
    \cup {extract_paper_info(DtText, <<DdPdfNested>>)[1]}
EnrichedRecords ==
    {DropPaperUrl(ApplyFetch(r, f)) : r \in ListedRecords, f \in {None, Soup(PageFull)}}
RecordLists == SeqsUpTo(ListedRecords \cup EnrichedRecords, MaxRecords)

\* enrich_paper_details(papers) is entered with some record list (line 160-162)
InitEnrich ==
    /\ pc = "enrich"
    /\ papers \in RecordLists
    /\ idx = 1
    /\ enriched_papers = <<>>
    /\ page = <<>>
    /\ max_papers = MaxRecords
    /\ fetch_abstracts = TRUE
    /\ attached = {}
    /\ dt_elements = <<>>
    /\ self_papers = <<>>
    /\ returned = <<>>
    /\ message = "none"
    /\ csv_file = <<>>
    /\ summary_file = <<>>
    /\ calls = 0
    /\ gets = <<>>
    /\ ret = None
    /\ errlog = <<>>
    /\ transport = <<>>
    /\ history = <<>>
    /\ viewer = ViewerIdle
    /\ insta = InstaIdle

NextEnrich ==
    \/ EnrichStep
    \/ EnrichReturn

SpecEnrich == InitEnrich /\ [][NextEnrich]_vars

\* ------------------- enrich_paper_details on lists long enough for its pauses
\* lists of title-only records, at most one of them with a detail-page URL
PauseLists ==
    LET plain == extract_paper_info(DtText, <<>>)[1]
        linked == extract_paper_info(DtLink, <<>>)[1]
    IN UNION {{[i \in 1..n |-> IF i = at THEN linked ELSE plain] : at \in 0..n} :
                 n \in 0..MaxPauseRecords}

InitPause ==
    /\ pc = "enrich"
    /\ papers \in PauseLists
    /\ idx = 1
    /\ enriched_papers = <<>>
    /\ page = <<>>
    /\ max_papers = MaxPauseRecords
    /\ fetch_abstracts = TRUE
    /\ attached = {}
    /\ dt_elements = <<>>
    /\ self_papers = <<>>
    /\ returned = <<>>
    /\ message = "none"
    /\ csv_file = <<>>
    /\ summary_file = <<>>
    /\ calls = 0
    /\ gets = <<>>
    /\ ret = None
    /\ errlog = <<>>
    /\ transport = <<>>
    /\ history = <<>>
    /\ viewer = ViewerIdle
    /\ insta = InstaIdle

NextPause ==
    \/ EnrichStep
    \/ EnrichReturn

SpecPause == InitPause /\ [][NextPause]_vars

\* --------------------------- main's export of a list scrape_papers returned
\* a text of n characters
Chars(n) == [i \in 1..n |-> "a"]

RecPlain == Put(EmptyDict, "title", <<"Q">>)
RecLong ==
    [title |-> <<"P">>, authors |-> << <<"A">>, <<"B">>, <<"C">>, <<"D">> >>,
     abstract |-> Chars(PreviewAbstractLen + 1),
     pdf_url |-> urljoin(SiteRoot, HrefPdf)]
RecAtLimits ==
    [title |-> <<"S">>, authors |-> << <<"A">>, <<"B">>, <<"C">> >>,
     abstract |-> Chars(PreviewAbstractLen)]
RecEmptyAbstract ==
    [title |-> <<"T">>, authors |-> << <<"A">> >>, abstract |-> <<>>,
     pdf_url |-> urljoin(SiteRoot, HrefPdf)]

\* short lists of every kind of record, long lists of two kinds
SummaryLists ==
    SeqsUpTo({RecPlain, RecLong, RecAtLimits, RecEmptyAbstract}, MaxMixedRecords)
       \cup SeqsUpTo({RecPlain, RecLong}, MaxSummaryRecords)

\* main after line 275: scrape_papers has stored and returned its list
InitSummary ==
    /\ pc = "main"
    /\ papers \in SummaryLists
    /\ self_papers = papers
    /\ returned = <<papers>>
    /\ enriched_papers = papers
    /\ idx = Len(papers) + 1
    /\ page = <<>>
    /\ max_papers = MaxSummaryRecords
    /\ fetch_abstracts = TRUE
    /\ attached = {}
    /\ dt_elements = <<>>
    /\ message = "none"
    /\ csv_file = <<>>
    /\ summary_file = <<>>
    /\ calls = 0
    /\ gets = <<>>
    /\ ret = None
    /\ errlog = <<>>
    /\ transport = <<>>
    /\ history = <<>>
    /\ viewer = ViewerIdle
    /\ insta = InstaIdle

NextSummary ==
    \/ MainCheck
    \/ SaveCsv
    \/ SaveSummary

SpecSummary == InitSummary /\ [][NextSummary]_vars

\* ------------------------- the listing pass of scrape_papers on fetched pages
RECURSIVE Flatten(_)
Flatten(seqs) == IF seqs = <<>> THEN <<>> ELSE Head(seqs) \o Flatten(Tail(seqs))

EntryPages == {Flatten(es) : es \in SeqsUpTo(Entries, MaxEntries)}
RaisingPages == SeqsUpTo(RaisingSamples, MaxNodes)

\* scrape_papers after line 121: the listing page was fetched and parsed, the
\* loop over dt_elements is about to start
InitListing ==
    /\ pc = "listing"
    /\ page \in EntryPages \cup RaisingPages
    /\ max_papers \in 0..MaxPapers
    /\ fetch_abstracts \in BOOLEAN
    /\ attached = 1..Len(page)
    /\ dt_elements = find_all_dt(page, 1)
    /\ idx = 1
    /\ papers = <<>>
    /\ enriched_papers = <<>>
    /\ self_papers = <<>>
    /\ returned = <<>>
    /\ message = "none"
    /\ csv_file = <<>>
    /\ summary_file = <<>>
    /\ calls = 1
    /\ gets = fetch_page(ListingUrl, Response("ok", <<page>>)).gets
    /\ ret = fetch_page(ListingUrl, Response("ok", <<page>>)).ret
    /\ errlog = fetch_page(ListingUrl, Response("ok", <<page>>)).log
    /\ transport = <<Response("ok", <<page>>)>>
    /\ history = <<>>
    /\ viewer = ViewerIdle
    /\ insta = InstaIdle

NextListing ==
    \/ ListingStep
    \/ ListingEnd

SpecListing == InitListing /\ [][NextListing]_vars

\* ------------------------------------------------------------- view_csv.py
\* a fresh scraper: the other programs run without it
ScraperIdle ==
    /\ pc = "start"
    /\ page = <<>>
    /\ max_papers = 0
    /\ fetch_abstracts = FALSE
    /\ attached = {}
    /\ dt_elements = <<>>
    /\ idx = 0
    /\ papers = <<>>
    /\ enriched_papers = <<>>
    /\ self_papers = <<>>
    /\ returned = <<>>
    /\ message = "none"
    /\ csv_file = <<>>
    /\ summary_file = <<>>
    /\ calls = 0
    /\ gets = <<>>
    /\ ret = None
    /\ errlog = <<>>
    /\ transport = <<>>
    /\ history = <<>>

Max(a, b) == IF a > b THEN a ELSE b

\* Python truth value of an Optional[int] argument (<<>> stands for None)
TruthyInt(n) == n # <<>> /\ n[1] # 0

\* s[:k], k negative counting from the end
SliceTo(s, k) ==
    IF k >= 0 THEN SubSeq(s, 1, Min(k, Len(s)))
    ELSE SubSeq(s, 1, Max(0, Len(s) + k))

\* s.ljust(w)
LJust(s, w) == s \o [i \in 1..(w - Len(s)) |-> " "]

\* lines 62-64: the row padded with empty cells and cut to the header's length
PadRow(row, n) == [i \in 1..n |-> IF i <= Len(row) THEN row[i] ELSE <<>>]

\* lines 17-27: the width of column c
ColWidth(data, headers, max_width, c) ==
    LET lens == {Len(headers[c])} \cup {Len(data[r][c]) : r \in {r \in 1..Len(data) : c <= Len(data[r])}}
        widest == CHOOSE n \in lens : \A m \in lens : n >= m
    IN Min(widest, max_width)

\* lines 30-31: the header row
HeaderRow(data, headers, max_width) ==
    Join([c \in 1..Len(headers) |->
            LJust(SliceTo(headers[c], ColWidth(data, headers, max_width, c)),
                  ColWidth(data, headers, max_width, c))],
         <<" ", "|", " ">>)

\* lines 41-44: one cell as displayed in a column of width w
DisplayCell(cell, w) ==
    LJust(IF Len(cell) > w THEN SliceTo(cell, w - 3) \o <<".", ".", ".">> ELSE cell, w)

\* lines 37-45: one data row as printed
DisplayRow(row, data, headers, max_width) ==
    Join([c \in 1..Min(Len(row), Len(headers)) |->
            DisplayCell(row[c], ColWidth(data, headers, max_width, c))],
         <<" ", "|", " ">>)

\* print_table(data, headers, max_width): what it prints
print_table(data, headers, max_width) ==
    IF data = <<>> THEN [kind |-> "no_data"]
    ELSE [kind |-> "table",
          rule |-> Len(HeaderRow(data, headers, max_width)),
          header |-> HeaderRow(data, headers, max_width),
          rows |-> [r \in 1..Len(data) |-> DisplayRow(data[r], data, headers, max_width)],
          total |-> Len(data)]

\* inputs: a two-column file whose rows are short, exact or long, with cells
\* shorter and longer than the header names
ViewHeader == << <<"i", "d">>, <<"t", "i", "t", "l", "e">> >>
ViewCells == {<<"a", "b">>, <<"a", "b", "c", "d", "e", "f">>}
ViewRowsOf == SeqsUpTo(ViewCells, 3) \ {<<>>}
ViewFiles == {[header |-> ViewHeader, rows |-> rows] : rows \in SeqsUpTo(ViewRowsOf, MaxViewRows)}
ViewWidths == {1, 2, 3, 4, 50}

\* view_csv(filename, max_rows, max_col_width) is called (line 50)
InitView ==
    /\ ScraperIdle
    /\ insta = InstaIdle
    /\ \E file \in {<<>>} \cup {<<f>> : f \in ViewFiles},
          max_rows \in {<<>>} \cup {<<n>> : n \in 0..(MaxViewRows + 1)},
          max_col_width \in ViewWidths :
         viewer = [pc |-> "open", file |-> file, max_rows |-> max_rows,
                   max_col_width |-> max_col_width, i |-> 0, data |-> <<>>,
                   notice |-> FALSE, printed |-> [kind |-> "nothing"], error |-> "none"]

\* lines 52-57 and 74-75: open the file and read the header row
ViewOpen ==
    /\ viewer.pc = "open"
    /\ viewer' = IF viewer.file = <<>>
                 THEN [viewer EXCEPT !.pc = "done", !.error = "not_found"]
                 ELSE [viewer EXCEPT !.pc = "read"]
    /\ UNCHANGED <<scraper, insta>>

\* lines 58-64: one iteration of the loop over the file's rows (i is enumerate's index)
ViewReadRow ==
    /\ viewer.pc = "read"
    /\ viewer.i < Len(viewer.file[1].rows)
    /\ ~(TruthyInt(viewer.max_rows) /\ viewer.i >= viewer.max_rows[1])
    /\ viewer' = [viewer EXCEPT
                    !.i = viewer.i + 1,
                    !.data = Append(viewer.data,
                                    PadRow(viewer.file[1].rows[viewer.i + 1],
                                           Len(viewer.file[1].header)))]
    /\ UNCHANGED <<scraper, insta>>

\* lines 59-60 and 66-72: the loop ends (rows exhausted or break), the table is printed
ViewPrint ==
    /\ viewer.pc = "read"
    /\ \/ viewer.i >= Len(viewer.file[1].rows)
       \/ TruthyInt(viewer.max_rows) /\ viewer.i >= viewer.max_rows[1]
    /\ viewer' = [viewer EXCEPT
                    !.pc = "done",
                    !.notice = TruthyInt(viewer.max_rows) /\ Len(viewer.data) > viewer.max_rows[1],
                    !.printed = print_table(viewer.data, viewer.file[1].header,
                                            viewer.max_col_width)]
    /\ UNCHANGED <<scraper, insta>>

NextView ==
    \/ ViewOpen
    \/ ViewReadRow
    \/ ViewPrint

SpecView == InitView /\ [][NextView]_vars

\* ------------------------------------------------- instagram_downloader.py
\* what profile.get_posts() yields: posts by typename, whose download raises
\* or not, or an exception raised by the iterator itself while listing
PostKinds ==
    {[typename |-> t, raises |-> b] : t \in {"GraphImage", "GraphSidecar"}, b \in BOOLEAN}
        \cup {[typename |-> "GraphVideo", raises |-> FALSE],
              [typename |-> "ListingError", raises |-> TRUE]}

\* line 79 to 90: the profile lookup, mkdir and chdir succeed, or one of them raises
ProfileOutcomes == {"ok", "not_exists", "private", "error"}

\* download_profile(profile_username, max_posts) is called (line 66)
InitInsta ==
    /\ ScraperIdle
    /\ viewer = ViewerIdle
    /\ \E outcome \in ProfileOutcomes,
          posts \in SeqsUpTo(PostKinds, MaxPosts),
          max_posts \in {<<>>} \cup {<<n>> : n \in 0..MaxPosts} :
         insta = [pc |-> "start", profile |-> outcome, posts |-> posts,
                  max_posts |-> max_posts, i |-> 0, downloaded_count |-> 0,
                  cwd |-> "original", attempted |-> <<>>, succeeded |-> <<>>,
                  ret |-> <<>>]

\* lines 78-93 and 135-144: find the profile and enter its directory
InstaStart ==
    /\ insta.pc = "start"
    /\ insta' = IF insta.profile = "ok"
                THEN [insta EXCEPT !.pc = "loop", !.cwd = "profile_dir",
                                   !.downloaded_count = 0]
                ELSE [insta EXCEPT !.pc = "done", !.ret = <<0>>]
    /\ UNCHANGED <<scraper, viewer>>

\* the next post is at hand and the loop's limit test (lines 99-100) lets it through
InstaNextPost ==
    /\ insta.pc = "loop"
    /\ insta.i < Len(insta.posts)
    /\ insta.posts[insta.i + 1].typename # "ListingError"
    /\ ~(TruthyInt(insta.max_posts) /\ insta.downloaded_count >= insta.max_posts[1])

\* lines 98-127: one iteration of the loop over the profile's posts
InstaPost ==
    /\ InstaNextPost
    /\ LET post == insta.posts[insta.i + 1]
           wanted == post.typename \in {"GraphImage", "GraphSidecar"}
       IN insta' = [insta EXCEPT
                      !.i = insta.i + 1,
                      !.attempted = Append(insta.attempted, insta.i + 1),
                      !.succeeded = IF wanted /\ ~post.raises
                                    THEN Append(insta.succeeded, insta.i + 1)
                                    ELSE insta.succeeded,
                      !.downloaded_count = IF wanted /\ ~post.raises
                                           THEN insta.downloaded_count + 1
                                           ELSE insta.downloaded_count]
    /\ UNCHANGED <<scraper, viewer>>

\* line 98, 132-133 and 142-144: the iterator raises; the finally clause
\* restores the directory and the outer handler returns 0
InstaListingError ==
    /\ insta.pc = "loop"
    /\ insta.i < Len(insta.posts)
    /\ insta.posts[insta.i + 1].typename = "ListingError"
    /\ insta' = [insta EXCEPT !.pc = "done", !.cwd = "original", !.ret = <<0>>]
    /\ UNCHANGED <<scraper, viewer>>

\* lines 98-100 and 129-133: the posts are exhausted or the limit is reached
InstaLoopEnd ==
    /\ insta.pc = "loop"
    /\ \/ insta.i >= Len(insta.posts)
       \/ /\ insta.i < Len(insta.posts)
          /\ insta.posts[insta.i + 1].typename # "ListingError"
          /\ TruthyInt(insta.max_posts)
          /\ insta.downloaded_count >= insta.max_posts[1]
    /\ insta' = [insta EXCEPT !.pc = "done", !.cwd = "original",
                              !.ret = <<insta.downloaded_count>>]
    /\ UNCHANGED <<scraper, viewer>>

NextInsta ==
    \/ InstaStart
    \/ InstaPost
    \/ InstaListingError
    \/ InstaLoopEnd

SpecInsta == InitInsta /\ [][NextInsta]_vars

\* ------------------------------------------------------------ observations
\* the steps of the listing pass and of the enrichment pass taken so far
IsExtract(j) == history[j].op = "extract"
IsEnrich(j) == history[j].op = "enrich"
ExtractSteps == {j \in 1..Len(history) : IsExtract(j)}
EnrichSteps == {j \in 1..Len(history) : IsEnrich(j)}

\* position in papers of the record that extract step j emitted
RecIndex(j) == Cardinality({m \in ExtractSteps : m <= j /\ history[m].out # <<>>})

ListingFetchFailed == transport # <<>> /\ transport[1].status # "ok" /\ gets[1] = ListingUrl
ListingFetched == transport # <<>> /\ transport[1].status = "ok" /\ gets[1] = ListingUrl

\* the loop over dt_elements has ended: exhausted, or the limit was reached
ListingComplete ==
    /\ ListingFetched
    /\ pc # "listing"
    /\ \/ Cardinality(ExtractSteps) = Len(dt_elements)
       \/ RecIndex(Len(history)) >= max_papers

\* get_text(strip=True) of a node: the stripped strings of its links and its own text
NodeText(n) ==
    LET Cat[i \in 0..Len(n.links)] ==
            IF i = 0 THEN <<>> ELSE Cat[i - 1] \o Strip(n.links[i].text)
    IN Cat[Len(n.links)] \o Strip(n.text)

\* a listing page made of title/detail pairs: every <dt> has text and is
\* immediately followed by its own <dd>
WellFormedPairs(doc) ==
    /\ Len(doc) % 2 = 0
    /\ \A i \in 1..Len(doc) :
         IF i % 2 = 1 THEN doc[i].tag = "dt" /\ NodeText(doc[i]) # <<>>
         ELSE doc[i].tag = "dd"

\* the text extract_paper_info takes as the title of a <dt>: its first link's
\* text when it has a link, its own text otherwise
TitleText(n) == IF n.links # <<>> THEN Strip(n.links[1].text) ELSE Strip(n.text)

\* ------------------------------------------------------------------ claims
\* C1 (as claimed): on a listing page of K well-formed title/detail pairs with
\* cap N, the finished listing pass has emitted exactly min(K, N) records, each
\* with a non-empty title.
C1_MinOfPairsAndCap ==
    (ListingComplete /\ pc # "crashed" /\ WellFormedPairs(page)) =>
        /\ RecIndex(Len(history)) = Min(Len(page) \div 2, max_papers)
        /\ Len(papers) = Min(Len(page) \div 2, max_papers)
        /\ \A i \in 1..Len(papers) : Truthy(papers[i], "title")

\* C1 (what the code does): the count is min(K, N) when K counts the pairs whose
\* title text, as extract_paper_info reads it, is non-empty; a <dt> whose link
\* has no text is not emitted even when the <dt> has text of its own (see C15).
C1_MinOfTitledPairsAndCap ==
    (ListingComplete /\ pc # "crashed" /\ WellFormedPairs(page)
       /\ \A i \in 1..Len(page) : page[i].tag = "dt" => TitleText(page[i]) # <<>>) =>
        /\ Len(papers) = Min(Len(page) \div 2, max_papers)
        /\ \A i \in 1..Len(papers) : Truthy(papers[i], "title")

C1_Witness ==
    /\ ListingComplete /\ WellFormedPairs(page)
    /\ Len(page) \div 2 > max_papers /\ max_papers > 0
    /\ \A i \in 1..Len(page) : page[i].tag = "dt" => TitleText(page[i]) # <<>>
    /\ Len(papers) = max_papers

\* C2: a <dt> with text, no link and no <dd> after it yields one record whose
\* only populated field is the title: no authors, abstract, pdf_url,
\* supplementary_url or _paper_url.
BareTitle(j) ==
    /\ IsExtract(j)
    /\ page[history[j].dt].links = <<>>
    /\ Strip(page[history[j].dt].text) # <<>>
    /\ \A k \in (history[j].dt + 1)..Len(page) : page[k].tag # "dd"

C2_TitleOnlyRecord ==
    \A j \in 1..Len(history) : BareTitle(j) =>
        /\ Len(history[j].out) = 1
        /\ LET r == history[j].out[1]
           IN /\ r["title"] = Strip(page[history[j].dt].text)
              /\ Get(r, "authors", <<>>) = <<>>
              /\ DOMAIN r \cap {"abstract", "pdf_url", "supplementary_url", "_paper_url"} = {}
              /\ pc \in {"listing", "main", "save_csv", "save_summary", "done"} =>
                    (IF pc = "listing" THEN papers ELSE returned[1])[RecIndex(j)] = r

C2_Witness ==
    \E j \in 1..Len(history) :
        /\ BareTitle(j)
        /\ \E k \in 1..(history[j].dt - 1) : page[k].tag = "dd"
        /\ pc = "done" /\ ~fetch_abstracts

\* C3: when the <dd> has links, authors is the sequence of their texts in
\* document order (same length, same order, repetitions kept), and it is still
\* that sequence after enrichment and in the exported row.
WithAuthorLinks(j) ==
    /\ IsExtract(j)
    /\ history[j].dd # <<>>
    /\ page[history[j].dd[1]].links # <<>>
    /\ history[j].out # <<>>

C3_AuthorsInLinkOrder ==
    \A j \in 1..Len(history) : WithAuthorLinks(j) =>
        LET links == page[history[j].dd[1]].links
            Same(authors) ==
                /\ Len(authors) = Len(links)
                /\ \A i \in 1..Len(links) : authors[i] = Strip(links[i].text)
        IN /\ Same(history[j].out[1]["authors"])
           /\ pc # "crashed" => Same(papers[RecIndex(j)]["authors"])
           /\ returned # <<>> => Same(returned[1][RecIndex(j)]["authors"])
           /\ csv_file # <<>> =>
                 csv_file[1].rows[RecIndex(j)][2] = Join([i \in 1..Len(links) |-> Strip(links[i].text)], AuthorSep)

C3_Witness ==
    \E j \in 1..Len(history) :
        /\ WithAuthorLinks(j)
        /\ \E a, b \in 1..Len(page[history[j].dd[1]].links) :
              a < b /\ page[history[j].dd[1]].links[a].text = page[history[j].dd[1]].links[b].text
        /\ fetch_abstracts
        /\ csv_file # <<>>

\* a dict without key k, whether or not it had it
Without(d, k) == [x \in (DOMAIN d) \ {k} |-> d[x]]

\* C4: when every page fetch fails, enrich_paper_details leaves each record as
\* it was (title, authors, abstract, pdf_url, supplementary_url keep their value
\* or absence) except that _paper_url is removed; this covers lists that were
\* enriched before.
AllFetchesFail == \A i \in 1..Len(transport) : transport[i].status # "ok"

C4_FailedFetchesChangeNothing ==
    AllFetchesFail =>
        /\ Len(enriched_papers) = Cardinality(EnrichSteps)
        /\ \A j \in EnrichSteps :
             /\ history[j].after = Without(history[j].before, "_paper_url")
             /\ enriched_papers[history[j].i] = Without(history[j].before, "_paper_url")
             /\ papers[history[j].i] = Without(history[j].before, "_paper_url")
        /\ pc = "enriched" => Len(enriched_papers) = Len(papers)

C4_Witness ==
    /\ pc = "enriched"
    /\ AllFetchesFail
    /\ Len(transport) = 2
    /\ \E j \in EnrichSteps : Has(history[j].before, "abstract")
    /\ \E j \in EnrichSteps : Has(history[j].before, "_paper_url")

\* C5: a record whose pdf_url is set before enrichment has the same pdf_url
\* after it, whatever the detail page holds; a record gets its pdf_url from the
\* detail page's .pdf link only when it had none.
PagePdf(body) == FindPdfLink(body[1].links)

C5_PdfUrlNeverOverwritten ==
    \A j \in EnrichSteps :
        LET before == history[j].before
            after == history[j].after
        IN /\ Truthy(before, "pdf_url") =>
                /\ Has(after, "pdf_url") /\ after["pdf_url"] = before["pdf_url"]
                /\ papers[history[j].i]["pdf_url"] = before["pdf_url"]
           /\ (~Truthy(before, "pdf_url") /\ Has(after, "pdf_url")) =>
                /\ history[j].status = "ok"
                /\ PagePdf(history[j].body) # <<>>
                /\ after["pdf_url"] = urljoin(SiteRoot, PagePdf(history[j].body)[1].href)
           /\ (~Truthy(before, "pdf_url") /\ history[j].status = "ok"
                 /\ PagePdf(history[j].body) # <<>>) => Has(after, "pdf_url")

C5_Witness ==
    /\ pc = "enriched"
    /\ \E j \in EnrichSteps :
        /\ Truthy(history[j].before, "pdf_url")
        /\ history[j].status = "ok"
        /\ PagePdf(history[j].body) # <<>>
        /\ urljoin(SiteRoot, PagePdf(history[j].body)[1].href) # history[j].before["pdf_url"]
    /\ \E j \in EnrichSteps :
        ~Truthy(history[j].before, "pdf_url") /\ Has(history[j].after, "pdf_url")

\* C6: a detail page fetched successfully that has no abstract container (no
\* div with id "abstract", none whose class matches "abstract") leaves the
\* abstract absent, and the pass goes on to the end without an error.
NoAbstractContainer(body) ==
    \A i \in 1..Len(body[1].divs) :
        body[1].divs[i].id # "abstract" /\ body[1].divs[i].class \notin AbstractClasses

FetchedWithoutAbstract(j) ==
    /\ IsEnrich(j)
    /\ history[j].status = "ok"
    /\ NoAbstractContainer(history[j].body)
    /\ ~Has(history[j].before, "abstract")

ParseAuthors(cell) == IF cell = <<>> THEN <<>> ELSE Split(cell, AuthorSep)

\* C7 (as claimed): every exported row reads back to the record's title, its
\* ordered authors list, its pdf_url and its supplementary_url.
C7_ExportRoundTrip ==
    csv_file # <<>> =>
        /\ Len(csv_file[1].rows) = Len(self_papers)
        /\ \A i \in 1..Len(self_papers) :
             LET row == csv_file[1].rows[i]
                 paper == self_papers[i]
             IN /\ row[1] = paper["title"]
                /\ ParseAuthors(row[2]) = Get(paper, "authors", <<>>)
                /\ row[4] = Get(paper, "pdf_url", <<>>)
                /\ row[5] = Get(paper, "supplementary_url", <<>>)

\* C7 (what the code does): title, pdf_url and supplementary_url read back
\* unchanged, and so does the authors list when no name contains "; ".
C7_RoundTripWithoutSeparatorInNames ==
    csv_file # <<>> =>
        \A i \in 1..Len(self_papers) :
            LET row == csv_file[1].rows[i]
                paper == self_papers[i]
                authors == Get(paper, "authors", <<>>)
            IN /\ row[1] = paper["title"]
               /\ row[4] = Get(paper, "pdf_url", <<>>)
               /\ row[5] = Get(paper, "supplementary_url", <<>>)
               /\ (\A a \in 1..Len(authors) : FindSub(authors[a], AuthorSep) = 0 /\ authors[a] # <<>>)
                     => ParseAuthors(row[2]) = authors

\* C8: the outcome main shows for a run, as its caller can observe it
Outcome == [returned |-> returned[1], message |-> message]

\* C8 (the "no data" outcome): a run whose listing was fetched and yielded zero
\* records ends with the empty list returned and the no-papers message.
C8_EmptyResultOutcome ==
    (pc = "done" /\ ListingFetched /\ RecIndex(Len(history)) = 0) =>
        Outcome = [returned |-> <<>>, message |-> "no_papers"]

C8_EmptyResultReached ==
    pc = "done" /\ ListingFetched /\ RecIndex(Len(history)) = 0 /\ Len(dt_elements) > 0

\* C8 (as claimed): a run whose listing fetch failed is told apart from the
\* "no data" outcome, both by the value scrape_papers returns and by the message
\* main shows.
C8_FetchFailureDistinguishable ==
    (pc = "done" /\ ListingFetchFailed) =>
        /\ Outcome.returned # <<>>
        /\ Outcome.message # "no_papers"

\* C9: an output file exists only once the listing pass, and the enrichment
\* pass when enabled, have run to the end and scrape_papers has returned; a run
\* whose listing fetch failed or that died inside a pass has written no file.
EnrichmentComplete == Cardinality(EnrichSteps) = RecIndex(Len(history))

C9_ExportOnlyAfterFullPass ==
    /\ (csv_file # <<>> \/ summary_file # <<>>) =>
          /\ pc \in {"save_summary", "done"}
          /\ ListingComplete
          /\ fetch_abstracts => EnrichmentComplete
          /\ returned # <<>> /\ returned[1] # <<>>
          /\ csv_file # <<>>
    /\ (ListingFetchFailed \/ pc = "crashed") => (csv_file = <<>> /\ summary_file = <<>>)

C9_Witness ==
    /\ pc = "done" /\ summary_file # <<>> /\ csv_file # <<>>
    /\ fetch_abstracts
    /\ Cardinality(EnrichSteps) = 2

C9_NoFileWitness ==
    pc = "crashed" /\ Cardinality(EnrichSteps) = 1 /\ RecIndex(Len(history)) = 2

\* C10 (as claimed): each fetch_page call issues exactly one GET; a failed call
\* returns a value carrying the URL and the cause; a successful call returns the
\* parsed document.
LastFailed == transport # <<>> /\ transport[Len(transport)].status # "ok"
LastOk == transport # <<>> /\ transport[Len(transport)].status = "ok"

C10_FailureValueCarriesUrlAndCause ==
    /\ Len(gets) = calls
    /\ LastFailed =>
          /\ {"url", "cause"} \subseteq DOMAIN ret
          /\ ret["url"] = gets[Len(gets)]
          /\ ret["cause"] = transport[Len(transport)].status
    /\ LastOk => ret = Soup(transport[Len(transport)].body[1])

\* C10 (amended): each fetch_page call issues exactly one GET, to the URL it was
\* given; a failed call returns None and the URL and the cause go to the error
\* log only; a successful call returns the parsed document and logs nothing.
C10_FailureReturnsNoneAndLogs ==
    /\ Len(gets) = calls /\ Len(transport) = calls
    /\ Len(errlog) = Cardinality({i \in 1..Len(transport) : transport[i].status # "ok"})
    /\ LastFailed =>
          /\ ret = None
          /\ errlog[Len(errlog)] = [url |-> gets[Len(gets)], cause |-> transport[Len(transport)].status]
    /\ LastOk => ret = Soup(transport[Len(transport)].body[1])
    /\ \A j \in EnrichSteps : history[j].status # "none" =>
          \E g \in 1..Len(gets) : gets[g] = history[j].url[1]

C10_Witness ==
    /\ calls = 3
    /\ transport[2].status = "http_error"
    /\ transport[3].status = "network_error"
    /\ ret = None

C10_OkWitness ==
    /\ calls = 2
    /\ transport[1].status = "ok"
    /\ transport[2].status = "ok"
    /\ ret.kind = "soup" /\ ret.doc \in DetailPages

\* C11: the CSV file is one header row title, authors, abstract, pdf_url,
\* supplementary_url, then one row per record in list order; authors is the
\* list joined with "; "; every absent field, authors included, is the empty
\* string and no cell is a null marker.
NullMarkers == {<<"None">>, <<"null">>, <<"nan">>}

C11_CsvLayout ==
    csv_file # <<>> =>
        LET out == csv_file[1]
        IN /\ out.header = <<"title", "authors", "abstract", "pdf_url", "supplementary_url">>
           /\ self_papers = returned[1]
           /\ Len(out.rows) = Len(returned[1])
           /\ \A i \in 1..Len(out.rows) :
                LET row == out.rows[i]
                    paper == returned[1][i]
                    Cell(key) == IF key \in DOMAIN paper THEN paper[key] ELSE <<>>
                IN /\ Len(row) = 5
                   /\ row[1] = Cell("title")
                   /\ row[2] = IF "authors" \in DOMAIN paper
                               THEN Join(paper["authors"], <<";", " ">>) ELSE <<>>
                   /\ row[3] = Cell("abstract")
                   /\ row[4] = Cell("pdf_url")
                   /\ row[5] = Cell("supplementary_url")
                   /\ \A c \in 1..5 : row[c] \notin NullMarkers

C11_Witness ==
    /\ csv_file # <<>>
    /\ Len(csv_file[1].rows) = 2
    /\ \E i \in 1..2 : /\ ~Has(self_papers[i], "authors") /\ ~Has(self_papers[i], "pdf_url")
                       /\ ~Has(self_papers[i], "supplementary_url")
    /\ \E i \in 1..2 : /\ Has(self_papers[i], "authors") /\ Len(self_papers[i]["authors"]) = 3
                       /\ Has(self_papers[i], "abstract")

\* C12: no output carries the transient detail-page URL: the CSV has no column
\* for it, and no CSV cell and no summary field holds the URL that the listing
\* pass stashed for the record, with enrichment on or off.
StashedUrl(i) ==
    LET js == {j \in ExtractSteps : history[j].out # <<>> /\ RecIndex(j) = i}
        j == CHOOSE j \in js : TRUE
    IN IF Has(history[j].out[1], "_paper_url") THEN <<history[j].out[1]["_paper_url"]>> ELSE <<>>

C12_DetailUrlNeverExported ==
    /\ csv_file # <<>> =>
          /\ \A c \in 1..Len(csv_file[1].header) : csv_file[1].header[c] # "_paper_url"
          /\ \A i \in 1..Len(csv_file[1].rows) :
                LET stashed == StashedUrl(i)
                IN stashed # <<>> =>
                      \A c \in 1..Len(csv_file[1].rows[i]) : csv_file[1].rows[i][c] # stashed[1]
    /\ summary_file # <<>> =>
          \A i \in 1..Len(summary_file[1].preview) :
             LET e == summary_file[1].preview[i]
                 stashed == StashedUrl(i)
             IN /\ DOMAIN e = {"title", "authors", "et_al", "abstract"}
                /\ stashed # <<>> =>
                      /\ e.title # stashed[1]
                      /\ e.authors # <<stashed[1]>>
                      /\ e.abstract # <<stashed[1]>>

C12_Witness ==
    /\ summary_file # <<>> /\ csv_file # <<>>
    /\ ~fetch_abstracts
    /\ Has(self_papers[1], "_paper_url") /\ ~Has(self_papers[1], "pdf_url")

C12_EnrichedWitness ==
    /\ summary_file # <<>> /\ csv_file # <<>>
    /\ fetch_abstracts
    /\ StashedUrl(1) # <<>>

\* C13: with fetch_abstracts false the run issues exactly one fetch, the
\* listing page, and no record has an abstract; the listing pass never sets
\* abstract, whatever the flag.
C13_NoEnrichmentNoAbstract ==
    /\ \A j \in ExtractSteps :
          history[j].out # <<>> => ~Has(history[j].out[1], "abstract")
    /\ pc = "listing" => \A i \in 1..Len(papers) : ~Has(papers[i], "abstract")
    /\ ~fetch_abstracts =>
          /\ calls = (IF pc = "start" THEN 0 ELSE 1)
          /\ \A g \in 1..Len(gets) : gets[g] = ListingUrl
          /\ EnrichSteps = {}
          /\ \A i \in 1..Len(papers) : ~Has(papers[i], "abstract")
          /\ \A i \in 1..Len(self_papers) : ~Has(self_papers[i], "abstract")
          /\ csv_file # <<>> => \A i \in 1..Len(csv_file[1].rows) : csv_file[1].rows[i][3] = <<>>

C13_Witness ==
    /\ ~fetch_abstracts
    /\ pc = "done" /\ message = "success"
    /\ Len(self_papers) = 2
    /\ \E i \in 1..2 : Has(self_papers[i], "_paper_url")

\* C14: each title node is paired only with the detail node that is its
\* immediately following sibling; a title node followed by another title node
\* yields a record without authors and links even when later detail nodes
\* exist, and the later title node keeps its own detail node.
ImmediateDd(n) ==
    IF n < Len(page) /\ page[n + 1].tag = "dd" THEN <<n + 1>> ELSE <<>>

C14_PairedWithImmediateSibling ==
    \A j \in ExtractSteps :
        LET h == history[j]
        IN /\ h.dd = ImmediateDd(h.dt)
           /\ (ImmediateDd(h.dt) = <<>> /\ h.out # <<>>) =>
                 /\ ~Truthy(h.out[1], "authors")
                 /\ ~Has(h.out[1], "pdf_url")
                 /\ ~Has(h.out[1], "supplementary_url")

\* C15: the title is the title node's link text if present, else the node's
\* own text, and the entry is skipped only if both are empty.
ClaimedTitle(dt) ==
    IF dt.links # <<>> /\ Strip(dt.links[1].text) # <<>>
    THEN Strip(dt.links[1].text)
    ELSE Strip(dt.text)

C15_TitleFallsBackToOwnText ==
    \A j \in ExtractSteps :
        LET h == history[j]
            title == ClaimedTitle(page[h.dt])
        IN IF title = <<>> THEN h.out = <<>>
           ELSE h.out # <<>> /\ h.out[1]["title"] = title

\* C18: once the listing pass has produced max_papers records, no later title
\* node is examined, paired or extracted: every extraction started with fewer
\* than max_papers records, and the nodes after the last examined title node
\* are untouched except for a detail node that an examined title node took.
ProducedBefore(j) ==
    Cardinality({k \in ExtractSteps : k < j /\ history[k].out # <<>>})

C18_StopsAtLimit ==
    /\ \A j \in ExtractSteps : ProducedBefore(j) < max_papers
    /\ Len(papers) <= max_papers
    /\ LET examined == {history[j].dt : j \in ExtractSteps}
           taken == UNION {{history[j].dd[i] : i \in DOMAIN history[j].dd} : j \in ExtractSteps}
       IN pc # "start" /\ ~ListingFetchFailed =>
             /\ attached = (1..Len(page)) \ (examined \cup taken)
             /\ \A i \in 1..Len(dt_elements) :
                   (dt_elements[i] \in examined) <=> (i <= Cardinality(ExtractSteps))

C18_Witness ==
    /\ pc = "main"
    /\ max_papers = 1 /\ Len(self_papers) = 1
    /\ Cardinality(ExtractSteps) = 2
    /\ Len(dt_elements) = 4
    /\ {dt_elements[3], dt_elements[4]} \subseteq attached

\* C16: when the detail node has no links, authors is its plain text split on
\* commas after removing only a leading "Authors:", "Author:" or "By:" label;
\* text before a label that occurs later is kept, and text without a leading
\* label is split in full.
AuthorLabels == {"Authors:", "Author:", "By:"}

LeadingLabelRemoved(text) ==
    LET t == Strip(text)
    IN IF t # <<>> /\ t[1] \in AuthorLabels THEN Strip(Tail(t)) ELSE t

WithAuthorText(j) ==
    /\ IsExtract(j)
    /\ history[j].dd # <<>>
    /\ page[history[j].dd[1]].links = <<>>
    /\ history[j].out # <<>>

C16_OnlyLeadingLabelRemoved ==
    \A j \in 1..Len(history) : WithAuthorText(j) =>
        LET t == LeadingLabelRemoved(page[history[j].dd[1]].text)
            parts == Split(t, <<",">>)
            r == history[j].out[1]
        IN IF t = <<>> THEN ~Has(r, "authors")
           ELSE Has(r, "authors") /\ r["authors"] = [i \in 1..Len(parts) |-> Strip(parts[i])]

\* C17: in the listing pass pdf_url is the resolved target of the first link,
\* over the title node's links followed by the detail node's, whose target
\* ends in ".pdf"; supplementary_url is the resolved target of the first link
\* whose target contains "supplemental" or "supplementary" in any letter case;
\* each is absent when no link matches.
Lower(tok) ==
    CASE tok = "Supplemental" -> "supplemental"
      [] tok = "SUPPLEMENTARY" -> "supplementary"
      [] OTHER -> tok

WrapperLinks(j) ==
    page[history[j].dt].links \o
        (IF history[j].dd = <<>> THEN <<>> ELSE page[history[j].dd[1]].links)

EndsInPdf(href) == Len(href) > 0 /\ href[Len(href)] = ".pdf"
NamesSupplement(href) ==
    \E k \in 1..Len(href) : Lower(href[k]) \in {"supplemental", "supplementary"}

C17_FirstMatchingLinks ==
    \A j \in ExtractSteps : history[j].out # <<>> =>
        LET links == WrapperLinks(j)
            r == history[j].out[1]
            pdfs == {i \in 1..Len(links) : EndsInPdf(links[i].href)}
            supps == {i \in 1..Len(links) : NamesSupplement(links[i].href)}
            Least(S) == CHOOSE i \in S : \A k \in S : i <= k
        IN /\ IF pdfs = {} THEN ~Has(r, "pdf_url")
              ELSE Has(r, "pdf_url") /\ r["pdf_url"] = urljoin(SiteRoot, links[Least(pdfs)].href)
           /\ IF supps = {} THEN ~Has(r, "supplementary_url")
              ELSE /\ Has(r, "supplementary_url")
                   /\ r["supplementary_url"] = urljoin(SiteRoot, links[Least(supps)].href)

C17_Witness ==
    \E j \in ExtractSteps :
        /\ page[history[j].dt] = DtPdf
        /\ history[j].dd # <<>> /\ page[history[j].dd[1]] = DdPdfOther
        /\ history[j].out # <<>>
        /\ history[j].out[1]["pdf_url"] = HrefPdfOther
        /\ history[j].out[1]["supplementary_url"] = <<"https://openaccess.thecvf.com">> \o HrefSuppUpper

C17_NoMatchWitness ==
    \E j \in ExtractSteps :
        /\ history[j].dd # <<>> /\ page[history[j].dd[1]] = DdAuthors
        /\ history[j].out # <<>>
        /\ DOMAIN history[j].out[1] \cap {"pdf_url", "supplementary_url"} = {}

\* C19: an entry whose extraction raises is skipped on its own and the pass
\* goes on: wherever the bad entry stands, it emits nothing, every other entry
\* the pass reads a title from is emitted, in document order up to the cap,
\* and the loop runs to the end of the title nodes or to the cap.
Malformed(href) == href # <<>> /\ href[1] = "http://["

EntryRaises(j) ==
    LET links == WrapperLinks(j)
        dt == page[history[j].dt]
        pdfs == {i \in 1..Len(links) : EndsInPdf(links[i].href)}
        supps == {i \in 1..Len(links) : NamesSupplement(links[i].href)}
    IN \/ dt.links # <<>> /\ Malformed(dt.links[1].href)
       \/ \E i \in pdfs : (\A k \in pdfs : i <= k) /\ Malformed(links[i].href)
       \/ \E i \in supps : (\A k \in supps : i <= k) /\ Malformed(links[i].href)

C19_BadDetailWitness ==
    /\ pc \notin {"start", "listing", "crashed"}
    /\ \E b, c \in ExtractSteps :
          /\ b < c
          /\ EntryRaises(b) /\ page[history[b].dt] = DtText
          /\ history[c].out # <<>>

\* C20: enrichment fetches the stashed detail-page URL when the record has
\* one; otherwise, when pdf_url is set, the URL derived from it ("/papers/"
\* replaced by "/", the ".pdf" suffix replaced by ".html"); a record with
\* neither causes no fetch, and at most one fetch is issued per record.
SuffixReplaced(url, old, new) ==
    IF url # <<>> /\ url[Len(url)] = old
    THEN SubSeq(url, 1, Len(url) - 1) \o <<new>>
    ELSE url

ClaimedDerivedUrl(pdf_url) ==
    SuffixReplaced([i \in 1..Len(pdf_url) |-> IF pdf_url[i] = "/papers/" THEN "/" ELSE pdf_url[i]],
                   ".pdf", ".html")

FetchedUrls ==
    LET Cat[n \in 0..Len(history)] ==
            IF n = 0 THEN <<>>
            ELSE Cat[n - 1] \o (IF IsEnrich(n) THEN history[n].url ELSE <<>>)
    IN Cat[Len(history)]

C20_FetchesStashedOrSuffixDerivedUrl ==
    /\ \A j \in EnrichSteps :
          LET before == history[j].before
          IN IF Has(before, "_paper_url") /\ before["_paper_url"] # <<>>
             THEN history[j].url = <<before["_paper_url"]>>
             ELSE IF Has(before, "pdf_url") /\ before["pdf_url"] # <<>>
             THEN history[j].url = <<ClaimedDerivedUrl(before["pdf_url"])>>
             ELSE history[j].url = <<>> /\ history[j].status = "none"
    /\ EnrichSteps # {} => gets = FetchedUrls

\* C20 (what the code does): the derived URL has every "/papers/" and every
\* ".pdf" of pdf_url replaced, not only the suffix; the order of preference,
\* the absence of a fetch and the single fetch per record are as claimed.
C20_FetchesStashedOrEveryOccurrenceDerivedUrl ==
    /\ \A j \in EnrichSteps :
          LET before == history[j].before
              EveryReplaced(url) ==
                  [i \in 1..Len(url) |-> IF url[i] = "/papers/" THEN "/"
                                         ELSE IF url[i] = ".pdf" THEN ".html" ELSE url[i]]
          IN IF Has(before, "_paper_url") /\ before["_paper_url"] # <<>>
             THEN history[j].url = <<before["_paper_url"]>>
             ELSE IF Has(before, "pdf_url") /\ before["pdf_url"] # <<>>
             THEN history[j].url = <<EveryReplaced(before["pdf_url"])>>
             ELSE history[j].url = <<>> /\ history[j].status = "none"
    /\ EnrichSteps # {} => gets = FetchedUrls

\* C21: enrichment is per-record independent: a step changes only the record
\* it processes and always moves on to the next one, what a record becomes
\* depends only on that record and on the answer to its own fetch, and every
\* record is processed whatever the outcome of the others; so two runs on the
\* same list that differ in the outcome of record i's fetch agree on every
\* other record.
SameInput(j, k) ==
    /\ history[j].before = history[k].before
    /\ history[j].status = history[k].status
    /\ history[j].body = history[k].body

OwnInputDecides ==
    /\ \A j, k \in EnrichSteps :
          SameInput(j, k) => history[j].after = history[k].after /\ history[j].url = history[k].url
    /\ \A j \in EnrichSteps : enriched_papers[history[j].i] = history[j].after
    /\ pc = "enriched" =>
          /\ Len(enriched_papers) = Len(papers)
          /\ \A i \in 1..Len(papers) : \E j \in EnrichSteps : history[j].i = i

OnlyOwnRecordChanges ==
    (pc = "enrich" /\ Len(history') = Len(history) + 1) =>
        /\ pc' = "enrich" /\ idx' = idx + 1
        /\ Len(papers') = Len(papers)
        /\ \A k \in 1..Len(papers) : k # idx => papers'[k] = papers[k]
        /\ SubSeq(enriched_papers', 1, Len(enriched_papers)) = enriched_papers
        /\ history'[Len(history')].i = idx
        /\ history'[Len(history')].before = papers[idx]
        /\ history'[Len(history')].after = papers'[idx]

EnrichOrder ==
    LET Cat[n \in 0..Len(history)] ==
            IF n = 0 THEN <<>>
            ELSE Cat[n - 1] \o (IF IsEnrich(n) THEN <<history[n].i>> ELSE <<>>)
    IN Cat[Len(history)]

C22_ListingThenFetchesInRecordOrder ==
    /\ calls = Len(gets) /\ calls = Len(transport)
    /\ gets # <<>> => gets[1] = ListingUrl
    /\ \A j \in EnrichSteps : \A k \in ExtractSteps : k < j
    /\ EnrichSteps # {} =>
          /\ ListingFetched
          /\ pc # "listing"
          /\ Cardinality(ExtractSteps) = Len(dt_elements) \/ RecIndex(Len(history)) >= max_papers
          /\ gets = <<ListingUrl>> \o FetchedUrls
    /\ EnrichSteps = {} => Len(gets) <= 1
    /\ EnrichOrder = [n \in 1..Cardinality(EnrichSteps) |-> n]

C22_Witness ==
    /\ pc = "enriched"
    /\ Len(gets) = 3
    /\ Cardinality(ExtractSteps) >= 3
    /\ EnrichOrder = <<1, 2>>

\* C23: the enrichment pass pauses after every 5 records processed: the step
\* of record i pauses exactly when i is a multiple of 5, whether or not the
\* record caused a fetch, so a finished pass over M records has paused
\* floor(M/5) times, each time before the next record's step.
PausedSteps == {j \in EnrichSteps : history[j].paused}

C23_PauseEveryFiveRecords ==
    /\ \A j \in EnrichSteps :
          history[j].paused <=> (\E m \in 1..Len(papers) : history[j].i = 5 * m)
    /\ pc = "enrich" => Cardinality(PausedSteps) = (idx - 1) \div 5
    /\ pc = "enriched" => Cardinality(PausedSteps) = Len(papers) \div 5
    /\ \A j \in PausedSteps : \A k \in EnrichSteps : history[k].i > history[j].i => k > j

C23_Witness ==
    /\ pc = "enriched"
    /\ Len(papers) = 10
    /\ Cardinality(PausedSteps) = 2
    /\ \E j, k \in PausedSteps :
          /\ history[j].i = 5 /\ history[j].status = "none"
          /\ history[k].i = 10 /\ history[k].status # "none"

\* C24: enrichment only fills in abstract and pdf_url: whatever the fetch
\* outcome, title, authors and supplementary_url of a record are the same
\* after as before (value or absence), and the returned list has the length
\* and the record order of the input list.
SameField(a, b, key) ==
    (key \in DOMAIN a) = (key \in DOMAIN b) /\ (key \in DOMAIN a => a[key] = b[key])

C24_OnlyAbstractAndPdfFilled ==
    /\ \A j \in EnrichSteps :
          /\ \A key \in {"title", "authors", "supplementary_url"} :
                /\ SameField(history[j].before, history[j].after, key)
                /\ SameField(history[j].before, enriched_papers[history[j].i], key)
          /\ DOMAIN history[j].after \subseteq
                (DOMAIN history[j].before \ {"_paper_url"}) \cup {"abstract", "pdf_url"}
    /\ Len(enriched_papers) = Cardinality(EnrichSteps)
    /\ pc = "enriched" =>
          /\ Len(enriched_papers) = Len(papers)
          /\ \A i \in 1..Len(papers) :
                \E j \in EnrichSteps : history[j].i = i /\ enriched_papers[i] = history[j].after

C24_Witness ==
    /\ pc = "enriched"
    /\ Len(enriched_papers) = 2
    /\ enriched_papers[1]["title"] # enriched_papers[2]["title"]
    /\ \E j \in EnrichSteps :
          /\ history[j].status = "ok"
          /\ Has(history[j].before, "authors") /\ Has(history[j].before, "supplementary_url")
          /\ Has(history[j].after, "abstract") /\ ~Has(history[j].before, "abstract")
    /\ \E j \in EnrichSteps :
          /\ history[j].status = "ok"
          /\ Has(history[j].after, "pdf_url") /\ ~Has(history[j].before, "pdf_url")

\* C25 (as claimed): when export begins, no record of the list scrape_papers
\* returned holds _paper_url, whatever the outcome of the record's fetch and
\* for either setting of fetch_abstracts.
ExportBegun == pc \in {"save_csv", "save_summary", "done"} /\ returned # <<>> /\ returned[1] # <<>>

C25_NoDetailUrlAtExport ==
    ExportBegun =>
        /\ \A i \in 1..Len(returned[1]) : ~Has(returned[1][i], "_paper_url")
        /\ \A i \in 1..Len(self_papers) : ~Has(self_papers[i], "_paper_url")

\* C25 (what the code does): the field is removed by the enrichment pass only;
\* with fetch_abstracts true no returned record holds it, whatever the fetch
\* outcome, and with fetch_abstracts false every record keeps the one the
\* listing pass stashed.
C25_DetailUrlRemovedByEnrichmentOnly ==
    ExportBegun =>
        \A i \in 1..Len(returned[1]) :
            IF fetch_abstracts THEN ~Has(returned[1][i], "_paper_url")
            ELSE StashedUrl(i) # <<>> =>
                    /\ Has(returned[1][i], "_paper_url")
                    /\ returned[1][i]["_paper_url"] = StashedUrl(i)[1]

\* C26: the summary reports the total number of records, the number with a
\* non-empty abstract and the number with a non-empty pdf_url, each counted
\* over the final record list, and previews exactly the first min(10, total)
\* records in list order.
NonEmpty(paper, key) == key \in DOMAIN paper /\ paper[key] # <<>>

C26_SummaryCountsAndPreview ==
    summary_file # <<>> =>
        LET rep == summary_file[1]
            total == Len(self_papers)
        IN /\ self_papers = returned[1]
           /\ rep.total = total
           /\ rep.with_abstracts = Cardinality({i \in 1..total : NonEmpty(self_papers[i], "abstract")})
           /\ rep.with_pdfs = Cardinality({i \in 1..total : NonEmpty(self_papers[i], "pdf_url")})
           /\ Len(rep.preview) = (IF total < 10 THEN total ELSE 10)
           /\ \A i \in 1..Len(rep.preview) : rep.preview[i].title = self_papers[i]["title"]

C26_Witness ==
    /\ summary_file # <<>>
    /\ summary_file[1].total = 11
    /\ Len(summary_file[1].preview) = 10
    /\ summary_file[1].with_abstracts = 2
    /\ self_papers[11] = RecLong /\ self_papers[1] = RecPlain /\ self_papers[2] = RecLong

C26_EmptyAbstractWitness ==
    /\ summary_file # <<>>
    /\ summary_file[1].total = 2
    /\ summary_file[1].with_abstracts = 0
    /\ summary_file[1].with_pdfs = 2
    /\ \A i \in 1..2 : Has(self_papers[i], "abstract")

\* C27: in the preview a record with more than 3 authors shows its first 3
\* followed by "et al. (N total)" with N the full count, a record with 3 or
\* fewer shows them all without suffix; an abstract longer than 200 characters
\* is shown as its first 200 characters followed by "...", a shorter one
\* unchanged.
C27_PreviewLimits ==
    summary_file # <<>> =>
        \A i \in 1..Len(summary_file[1].preview) :
            LET e == summary_file[1].preview[i]
                paper == self_papers[i]
            IN /\ NonEmpty(paper, "authors") =>
                    LET authors == paper["authors"]
                    IN IF Len(authors) > 3
                       THEN /\ e.authors = <<authors[1] \o <<",", " ">> \o authors[2]
                                              \o <<",", " ">> \o authors[3]>>
                            /\ e.et_al = <<Len(authors)>>
                       ELSE /\ e.authors = <<Join(authors, <<",", " ">>)>>
                            /\ e.et_al = <<>>
               /\ ~NonEmpty(paper, "authors") => e.authors = <<>> /\ e.et_al = <<>>
               /\ NonEmpty(paper, "abstract") =>
                    LET abstract == paper["abstract"]
                    IN IF Len(abstract) > 200
                       THEN /\ Len(e.abstract[1]) = 201
                            /\ SubSeq(e.abstract[1], 1, 200) = SubSeq(abstract, 1, 200)
                            /\ e.abstract[1][201] = "..."
                       ELSE e.abstract = <<abstract>>
               /\ ~NonEmpty(paper, "abstract") => e.abstract = <<>>

C27_Witness ==
    /\ summary_file # <<>>
    /\ Len(summary_file[1].preview) = 2
    /\ self_papers[1] = RecLong /\ self_papers[2] = RecAtLimits
    /\ summary_file[1].preview[1].et_al = <<4>>
    /\ Len(summary_file[1].preview[1].abstract[1]) = 201
    /\ summary_file[1].preview[2].et_al = <<>>
    /\ Len(summary_file[1].preview[2].abstract[1]) = 200

\* the viewer has printed its table
ViewDone == viewer.pc = "done" /\ viewer.error = "none"

DisplayedRows == IF viewer.printed.kind = "table" THEN Len(viewer.printed.rows) ELSE 0

\* C28 (as claimed): given a max_rows that is not None, 0 included, view_csv
\* displays at most max_rows data rows, the first ones of the file in file
\* order, each with exactly as many cells as the header.
C28_AtMostMaxRows ==
    (ViewDone /\ viewer.max_rows # <<>>) =>
        /\ DisplayedRows <= viewer.max_rows[1]
        /\ Len(viewer.data) = DisplayedRows
        /\ \A r \in 1..Len(viewer.data) :
              /\ Len(viewer.data[r]) = Len(viewer.file[1].header)
              /\ \A c \in 1..Len(viewer.data[r]) :
                    viewer.data[r][c] = IF c <= Len(viewer.file[1].rows[r])
                                        THEN viewer.file[1].rows[r][c] ELSE <<>>

\* C28 (what the code does): a max_rows of 0 is taken as no limit; for a
\* positive max_rows the claim's bound, order and row shape hold.
C28_AtMostMaxRowsWhenPositive ==
    ViewDone =>
        /\ (viewer.max_rows # <<>> /\ viewer.max_rows[1] > 0) =>
              Len(viewer.data) = Min(viewer.max_rows[1], Len(viewer.file[1].rows))
        /\ (viewer.max_rows = <<>> \/ viewer.max_rows = <<0>>) =>
              Len(viewer.data) = Len(viewer.file[1].rows)
        /\ Len(viewer.data) = DisplayedRows
        /\ \A r \in 1..Len(viewer.data) :
              viewer.data[r] = PadRow(viewer.file[1].rows[r], Len(viewer.file[1].header))

\* the printed cell of data row r, column c, fills its column and no more
CellFits(r, c) ==
    LET w == ColWidth(viewer.data, viewer.file[1].header, viewer.max_col_width, c)
        cell == viewer.data[r][c]
        shown == DisplayCell(cell, w)
    IN /\ w <= viewer.max_col_width
       /\ Len(shown) = w
       /\ Len(cell) > w => (w >= 3 /\ SubSeq(shown, w - 2, w) = <<".", ".", ".">>)

LayoutFits ==
    /\ \A r \in 1..Len(viewer.data) : \A c \in 1..Len(viewer.data[r]) : CellFits(r, c)
    /\ \A r \in 1..Len(viewer.printed.rows) :
          Len(viewer.printed.rows[r]) = Len(viewer.printed.header)

\* C29 (as claimed): for every max_width >= 1 each printed cell occupies
\* exactly its column's width, which never exceeds max_width; a cell longer
\* than the width is cut and ends with "..." within that width, so every
\* printed row is as long as the header row.
C29_CellsFitColumnWidth ==
    (ViewDone /\ viewer.printed.kind = "table" /\ viewer.max_col_width >= 1) => LayoutFits

\* C29 (what the code does): the claim's layout holds when max_width >= 3.
C29_CellsFitColumnWidthFromThree ==
    (ViewDone /\ viewer.printed.kind = "table" /\ viewer.max_col_width >= 3) => LayoutFits

\* the call has returned
InstaDone == insta.pc = "done"

\* C30 (as claimed): given a max_posts that is not None, 0 included,
\* download_profile returns a count that never exceeds max_posts and equals
\* the number of posts downloaded without error; a post whose download raises
\* is not counted and does not stop the later posts from being attempted;
\* after the call the working directory is the one before the call.
C30_CountWithinMaxPosts ==
    /\ (InstaDone /\ insta.max_posts # <<>>) =>
          /\ insta.ret[1] <= insta.max_posts[1]
          /\ insta.ret[1] = Len(insta.succeeded)
    /\ \A k \in 1..Len(insta.succeeded) : ~insta.posts[insta.succeeded[k]].raises
    /\ \A k \in 1..Len(insta.attempted) : insta.attempted[k] = k
    /\ (InstaDone /\ insta.profile = "ok"
          /\ \A k \in 1..Len(insta.posts) : insta.posts[k].typename # "ListingError") =>
          \/ insta.i = Len(insta.posts)
          \/ insta.max_posts # <<>> /\ Len(insta.succeeded) = insta.max_posts[1]
    /\ InstaDone => insta.cwd = "original"

\* C30 (what the code does): a max_posts of 0 is taken as no limit, and a call
\* whose listing of posts raises returns 0 whatever it downloaded; otherwise
\* the count is the number of posts downloaded without error and within a
\* positive max_posts. The working directory is restored on every path, and an
\* error on one post neither counts nor ends the loop.
C30_CountWithinPositiveMaxPosts ==
    /\ InstaDone =>
          /\ insta.cwd = "original"
          /\ insta.ret[1] \in {0, Len(insta.succeeded)}
          /\ TruthyInt(insta.max_posts) => insta.ret[1] <= insta.max_posts[1]
          /\ insta.ret[1] # Len(insta.succeeded) =>
                (insta.i < Len(insta.posts) /\ insta.posts[insta.i + 1].typename = "ListingError")
    /\ \A k \in 1..Len(insta.succeeded) : ~insta.posts[insta.succeeded[k]].raises
    /\ \A k \in 1..Len(insta.attempted) : insta.attempted[k] = k
    /\ (InstaDone /\ insta.profile = "ok"
          /\ \A k \in 1..Len(insta.posts) : insta.posts[k].typename # "ListingError") =>
          \/ insta.i = Len(insta.posts)
          \/ TruthyInt(insta.max_posts) /\ Len(insta.succeeded) = insta.max_posts[1]

====
